---- MODULE Spec2Model ----
(***************************************************************************)
(* State-machine model of src/src/main.rs: main() runs authenticate() on   *)
(* the session's event channel and then execute_cmd(), which spawns one    *)
(* reader task per output stream, joins both and waits for the child.      *)
(***************************************************************************)
EXTENDS Integers, Sequences, FiniteSets, TLC

\* ------------------------------------------------------------------ bounds
MaxEvents == 3      \* longest event sequence given to authenticate() alone
MaxHandshake == 1   \* longest event sequence in a run of the whole program
MaxWrites == 4      \* most bytes the remote process writes in total
BufCap == 1         \* capacity of one stream's transport buffer
ScratchSize == 2    \* the reader's scratch buffer, scaled down from 1024
MaxPauses == 1      \* would-block reports and pauses are counted up to this many

\* --------------------------------------------------------- program values
ANSWERS == << >>

NoBanner == "<none>"
HostTexts == {"h1", "h2"}
PromptLists == {<< >>, <<"p1">>}
BannerTexts == {NoBanner, "b1"}
ErrorTexts == {"m1", "m2"}

Streams == {"stdout", "stderr"}
\* io::ErrorKind of a read error other than WouldBlock.
FatalKinds == {"ConnectionReset"}

Event(t, x, p) == [type |-> t, text |-> x, prompts |-> p]

SessionEvent ==
    {Event("HostVerify", x, << >>) : x \in HostTexts}
    \cup {Event("Authenticate", "", p) : p \in PromptLists}
    \cup {Event("Banner", x, << >>) : x \in BannerTexts}
    \cup {Event("Error", x, << >>) : x \in ErrorTexts}
    \cup {Event("Authenticated", "", << >>)}

SeqsUpTo(S, n) == UNION {[1..k -> S] : k \in 0..n}

Min(a, b) == IF a < b THEN a ELSE b

VARIABLES
    mainPc,      \* position of main(): "authenticate", "execute", "print", "done", "failed"
    events,      \* every event the channel delivers, in arrival order
    srcClosed,   \* the sender side is dropped once events are delivered
    consumed,    \* number of events recv() has returned
    authPc,      \* position of authenticate(): "recv", "answer", "returned"
    authResult,  \* value authenticate() returned
    answers,     \* answers sent through the challenges' responders, in order
    banners,     \* lines printed by the Banner arm
    firstCall,   \* what an earlier call of authenticate() did, if there was one
    budget,      \* most bytes the process of this run writes
    wrote,       \* the stream each byte written so far went to
    pending,     \* what the process does next: write to a stream, or "exit"
    procState,   \* "notstarted", "running", "exited"
    exitOk,      \* status.success() of the status async_wait() yielded
    buf,         \* bytes in transit on each stream
    nonblocking, \* stream -> set_non_blocking(true) has been applied
    task,        \* stream -> the spawned reader: pc, bytes, last read, result
    readLog,     \* stream -> every read() that returned data, end-of-stream or a fatal error
    blocks,      \* stream -> reads that reported WouldBlock, counted up to MaxPauses
    pauses,      \* stream -> sleeps that elapsed, counted up to MaxPauses
    execPc,      \* position of execute_cmd()
    gotOut,      \* local stdout of execute_cmd after stdout_handle.await
    gotErr,      \* local stderr of execute_cmd after stderr_handle.await
    execResult   \* value execute_cmd() returned

authVars == <<events, srcClosed, consumed, authPc, authResult, answers, banners, firstCall>>
procVars == <<budget, wrote, pending, procState, exitOk, buf>>
taskVars == <<nonblocking, task, readLog, blocks, pauses>>
coordVars == <<execPc, gotOut, gotErr, execResult>>
vars == <<mainPc, authVars, procVars, taskVars, coordVars>>

\* ------------------------------------------------------------ result values
NoResult == [tag |-> "none", kind |-> "", msg |-> ""]
OkUnit == [tag |-> "Ok", kind |-> "", msg |-> ""]
IoError(k, m) == [tag |-> "Err", kind |-> k, msg |-> m]

NoOutput == [tag |-> "none", origin |-> "", kind |-> "", success |-> FALSE, stdout |-> << >>, stderr |-> << >>]
OkOutput(s, o, e) == [tag |-> "Ok", origin |-> "", kind |-> "", success |-> s, stdout |-> o, stderr |-> e]
ExecErr(o, k) == [tag |-> "Err", origin |-> o, kind |-> k, success |-> FALSE, stdout |-> << >>, stderr |-> << >>]

NoOutcome == [tag |-> "none", bytes |-> << >>, err |-> ""]
NewTask == [pc |-> "unspawned", bytes |-> << >>, last |-> "none", result |-> NoOutcome]

\* -------------------------------------------------------------------- Init
\* authenticate() consumes and drops the event receiver before execute_cmd()
\* starts and execute_cmd() never looks at it, so the inputs of the two are
\* varied separately: every event sequence for authenticate() alone, short
\* handshakes in front of a silent process, and every process output behind
\* the shortest successful handshake.
AuthInputs ==
    /\ events \in SeqsUpTo(SessionEvent, MaxEvents)
    /\ srcClosed \in BOOLEAN
    /\ budget = 0

HandshakeInputs ==
    /\ events \in SeqsUpTo(SessionEvent, MaxHandshake)
    /\ srcClosed \in BOOLEAN
    /\ budget = 0

ExecInputs ==
    /\ events = <<Event("Authenticated", "", << >>)>>
    /\ srcClosed = TRUE
    /\ budget = MaxWrites

\* The state right after Session::connect returned (session, events).
\* Nothing is recorded of an earlier call: main() calls authenticate() once.
NoCall == [called |-> FALSE, result |-> NoResult, answers |-> << >>,
           banners |-> << >>, consumed |-> 0]

Connected ==
    /\ mainPc = "authenticate"
    /\ consumed = 0
    /\ authPc = "recv"
    /\ authResult = NoResult
    /\ answers = << >>
    /\ banners = << >>
    /\ firstCall = NoCall
    /\ wrote = << >>
    /\ pending = "exit"
    /\ procState = "notstarted"
    /\ exitOk = FALSE
    /\ buf = [s \in Streams |-> << >>]
    /\ nonblocking = [s \in Streams |-> FALSE]
    /\ task = [s \in Streams |-> NewTask]
    /\ readLog = [s \in Streams |-> << >>]
    /\ blocks = [s \in Streams |-> 0]
    /\ pauses = [s \in Streams |-> 0]
    /\ execPc = "idle"
    /\ gotOut = << >>
    /\ gotErr = << >>
    /\ execResult = NoOutput

AuthInit == AuthInputs /\ Connected

Init == (HandshakeInputs \/ ExecInputs) /\ Connected

\* ------------------------------------------------------------ authenticate
\* authenticate() returns r; main's `?` either propagates or moves on.
AuthReturn_IgnoreError(r) ==
    /\ authResult' = r
    /\ authPc' = "returned"
    /\ mainPc' = "execute"

AuthReturn(r) ==
    /\ authResult' = r
    /\ authPc' = "returned"
    /\ mainPc' = IF r.tag = "Ok" THEN "execute" ELSE "failed"

\* The value the challenge's responder is called with.
HostVerifyAnswer(e) == TRUE

AuthenticateAnswer_PerPrompt(e) == [i \in 1..Len(e.prompts) |-> ""]

AuthenticateAnswer_Remembered(e) == IF firstCall.called THEN <<"again">> ELSE ANSWERS

AuthenticateAnswer(e) == ANSWERS

AnswerFor(i, e) ==
    IF e.type = "HostVerify"
    THEN [idx |-> i, kind |-> "bool", trust |-> HostVerifyAnswer(e), creds |-> << >>]
    ELSE [idx |-> i, kind |-> "list", trust |-> FALSE, creds |-> AuthenticateAnswer(e)]

IsChallenge(e) == e.type \in {"HostVerify", "Authenticate"}

\* SessionEvent::HostVerify / SessionEvent::Authenticate: the answer future
\* is awaited next.
ChallengeArm(e) ==
    /\ authPc' = "answer"
    /\ UNCHANGED <<mainPc, authResult, banners>>

\* SessionEvent::Banner(banner): printed only when it is Some.
BannerArm_Fail(e) ==
    /\ AuthReturn(IoError("Other", "banner"))
    /\ UNCHANGED banners

BannerArm(e) ==
    /\ banners' = IF e.text # NoBanner THEN Append(banners, e.text) ELSE banners
    /\ UNCHANGED <<mainPc, authPc, authResult>>

\* SessionEvent::Error(err) => return Err(PermissionDenied, err)
ErrorArm_NoMessage(e) ==
    /\ AuthReturn(IoError("PermissionDenied", ""))
    /\ UNCHANGED banners

ErrorArm(e) ==
    /\ AuthReturn(IoError("PermissionDenied", e.text))
    /\ UNCHANGED banners

\* SessionEvent::Authenticated => break, then Ok(())
AuthenticatedArm_Continue(e) ==
    UNCHANGED <<mainPc, authPc, authResult, banners>>

AuthenticatedArm(e) ==
    /\ AuthReturn(OkUnit)
    /\ UNCHANGED banners

\* events.recv().await yields Ok(event): one arm of the match runs up to its
\* first suspension point.
AuthRecv ==
    /\ mainPc = "authenticate"
    /\ authPc = "recv"
    /\ consumed < Len(events)
    /\ consumed' = consumed + 1
    /\ LET e == events[consumed + 1] IN
        CASE IsChallenge(e) -> ChallengeArm(e)
          [] e.type = "Banner" -> BannerArm(e)
          [] e.type = "Error" -> ErrorArm(e)
          [] e.type = "Authenticated" -> AuthenticatedArm(e)
    /\ UNCHANGED <<firstCall, events, srcClosed, answers, procVars, taskVars, coordVars>>

\* events.recv().await yields Err: the channel is empty and closed, the
\* while-let loop ends and Ok(()) is returned.
AuthRecvClosed_Incomplete ==
    /\ mainPc = "authenticate"
    /\ authPc = "recv"
    /\ consumed = Len(events)
    /\ srcClosed
    /\ AuthReturn(IoError("Other", "incomplete"))
    /\ UNCHANGED <<firstCall, events, srcClosed, consumed, answers, banners,
                   procVars, taskVars, coordVars>>

AuthRecvClosed ==
    /\ mainPc = "authenticate"
    /\ authPc = "recv"
    /\ consumed = Len(events)
    /\ srcClosed
    /\ AuthReturn(OkUnit)
    /\ UNCHANGED <<firstCall, events, srcClosed, consumed, answers, banners,
                   procVars, taskVars, coordVars>>

\* verify.answer(true) / auth.answer(ANSWERS) completes, with or without
\* error; `?` returns the error wrapped as io::ErrorKind::Other.
AuthAnswer_RetryOnce ==
    /\ mainPc = "authenticate"
    /\ authPc = "answer"
    /\ \E ok \in BOOLEAN :
        /\ answers' = Append(answers,
                [a |-> AnswerFor(consumed, events[consumed]), ok |-> ok])
        /\ IF ok
           THEN /\ authPc' = "recv"
                /\ UNCHANGED <<mainPc, authResult>>
           ELSE IF answers # << >> /\ answers[Len(answers)].a.idx = consumed
                THEN AuthReturn(IoError("Other", "answer"))
                ELSE UNCHANGED <<mainPc, authPc, authResult>>
    /\ UNCHANGED <<firstCall, events, srcClosed, consumed, banners,
                   procVars, taskVars, coordVars>>

AuthAnswer_IgnoreFailure ==
    /\ mainPc = "authenticate"
    /\ authPc = "answer"
    /\ \E ok \in BOOLEAN :
        /\ answers' = Append(answers,
                [a |-> AnswerFor(consumed, events[consumed]), ok |-> ok])
        /\ authPc' = "recv"
        /\ UNCHANGED <<mainPc, authResult>>
    /\ UNCHANGED <<firstCall, events, srcClosed, consumed, banners,
                   procVars, taskVars, coordVars>>

AuthAnswer ==
    /\ mainPc = "authenticate"
    /\ authPc = "answer"
    /\ \E ok \in BOOLEAN :
        /\ answers' = Append(answers,
                [a |-> AnswerFor(consumed, events[consumed]), ok |-> ok])
        /\ IF ok
           THEN /\ authPc' = "recv"
                /\ UNCHANGED <<mainPc, authResult>>
           ELSE AuthReturn(IoError("Other", "answer"))
    /\ UNCHANGED <<firstCall, events, srcClosed, consumed, banners,
                   procVars, taskVars, coordVars>>

AuthNext == AuthRecv \/ AuthRecvClosed \/ AuthAnswer

\* authenticate() as a function of what its collaborators deliver: the
\* events still to be received, the outcomes of the answers still to be
\* sent, whether the source closes after its last event, and the answers
\* sent so far.  It yields the value returned (NoResult while recv() would
\* wait on an open, empty source) and the answers sent.
RECURSIVE authenticate(_, _, _, _)
authenticate(evs, oks, closed, sent) ==
    IF evs = << >>
    THEN [result |-> IF closed THEN OkUnit ELSE NoResult, answers |-> sent]
    ELSE LET e == Head(evs) IN
        CASE IsChallenge(e) ->
                LET a == AnswerFor(0, e)
                    now == Append(sent, [a |-> a, ok |-> Head(oks)])
                IN  IF Head(oks)
                    THEN authenticate(Tail(evs), Tail(oks), closed, now)
                    ELSE [result |-> IoError("Other", "answer"), answers |-> now]
          [] e.type = "Banner" -> authenticate(Tail(evs), oks, closed, sent)
          [] e.type = "Error" ->
                [result |-> IoError("PermissionDenied", e.text), answers |-> sent]
          [] e.type = "Authenticated" -> [result |-> OkUnit, answers |-> sent]

\* authenticate() is called again, on a second source that delivers the
\* same events: the function starts from its entry with nothing but its
\* argument, and what the first call did is kept for comparison.
AuthAgain ==
    /\ authPc = "returned"
    /\ ~firstCall.called
    /\ firstCall' = [called |-> TRUE, result |-> authResult, answers |-> answers,
                     banners |-> banners, consumed |-> consumed]
    /\ mainPc' = "authenticate"
    /\ authPc' = "recv"
    /\ authResult' = NoResult
    /\ consumed' = 0
    /\ answers' = << >>
    /\ banners' = << >>
    /\ UNCHANGED <<events, srcClosed, procVars, taskVars, coordVars>>

\* Two calls of authenticate() in a row, over every event sequence.
AuthTwiceSpec == AuthInit /\ [][AuthNext \/ AuthAgain]_vars

\* authenticate() on its own, over every event sequence.
AuthSpec == AuthInit /\ [][AuthNext]_vars

\* ------------------------------------------------------- the remote process
\* Bytes are numbered in the order the process writes them, so every byte is
\* distinct.
WrittenTo(s) == SelectSeq([i \in 1..Len(wrote) |-> i], LAMBDA i : wrote[i] = s)

\* What a process that has written n bytes may do next.
Intents(n) == IF n < budget THEN Streams \cup {"exit"} ELSE {"exit"}

\* The process writes its pending byte; the write blocks while that stream's
\* buffer is full.  Then it turns to its next write, or to exiting.
ProcWrite ==
    /\ procState = "running"
    /\ pending \in Streams
    /\ Len(buf[pending]) < BufCap
    /\ buf' = [buf EXCEPT ![pending] = Append(@, Len(wrote) + 1)]
    /\ wrote' = Append(wrote, pending)
    /\ pending' \in Intents(Len(wrote) + 1)
    /\ UNCHANGED <<mainPc, authVars, budget, procState, exitOk, taskVars, coordVars>>

\* The process exits; both streams reach end-of-stream once drained.
ProcExit ==
    /\ procState = "running"
    /\ pending = "exit"
    /\ procState' = "exited"
    /\ UNCHANGED <<mainPc, authVars, budget, wrote, pending, exitOk, buf, taskVars, coordVars>>

ProcNext == ProcWrite \/ ProcExit

\* ------------------------------------------------------------ spawn_reader!
LogEntry(k, d) == [kind |-> k, data |-> d]
Outcome(t, b, x) == [tag |-> t, bytes |-> b, err |-> x]

\* Ok(n) if n > 0 => bytes.extend(&buf[..n]); the loop continues at once.
ReadData_ThenPause(s, n) ==
    /\ task' = [task EXCEPT ![s].bytes = @ \o SubSeq(buf[s], 1, n),
                            ![s].last = "data",
                            ![s].pc = "sleep"]
    /\ buf' = [buf EXCEPT ![s] = SubSeq(@, n + 1, Len(@))]
    /\ readLog' = [readLog EXCEPT ![s] = Append(@, LogEntry("data", SubSeq(buf[s], 1, n)))]
    /\ UNCHANGED blocks

ReadData_Shared(s, n) ==
    /\ task' = [t \in Streams |->
                   [task[t] EXCEPT !.bytes = @ \o SubSeq(buf[s], 1, n),
                                   !.last = IF t = s THEN "data" ELSE @]]
    /\ buf' = [buf EXCEPT ![s] = SubSeq(@, n + 1, Len(@))]
    /\ readLog' = [readLog EXCEPT ![s] = Append(@, LogEntry("data", SubSeq(buf[s], 1, n)))]
    /\ UNCHANGED blocks

ReadData(s, n) ==
    /\ task' = [task EXCEPT ![s].bytes = @ \o SubSeq(buf[s], 1, n),
                            ![s].last = "data"]
    /\ buf' = [buf EXCEPT ![s] = SubSeq(@, n + 1, Len(@))]
    /\ readLog' = [readLog EXCEPT ![s] = Append(@, LogEntry("data", SubSeq(buf[s], 1, n)))]
    /\ UNCHANGED blocks

\* Ok(_) => break Ok(bytes)
ReadEof(s) ==
    /\ task' = [task EXCEPT ![s].pc = "done",
                            ![s].last = "eof",
                            ![s].result = Outcome("Ok", task[s].bytes, "")]
    /\ readLog' = [readLog EXCEPT ![s] = Append(@, LogEntry("eof", << >>))]
    /\ UNCHANGED <<buf, blocks>>

\* Err(x) if x.kind() == WouldBlock => sleep(READER_PAUSE_MILLIS).await
ReadWouldBlock(s) ==
    /\ task' = [task EXCEPT ![s].pc = "sleep", ![s].last = "wouldblock"]
    /\ blocks' = [blocks EXCEPT ![s] = Min(@ + 1, MaxPauses)]
    /\ UNCHANGED <<buf, readLog>>

\* Err(x) => break Err(x)
ReadError_KeepBytes(s, x) ==
    /\ task' = [task EXCEPT ![s].pc = "done",
                            ![s].last = x,
                            ![s].result = Outcome("Ok", task[s].bytes, "")]
    /\ readLog' = [readLog EXCEPT ![s] = Append(@, LogEntry(x, << >>))]
    /\ UNCHANGED <<buf, blocks>>

ReadError(s, x) ==
    /\ task' = [task EXCEPT ![s].pc = "done",
                            ![s].last = x,
                            ![s].result = Outcome("Err", << >>, x)]
    /\ readLog' = [readLog EXCEPT ![s] = Append(@, LogEntry(x, << >>))]
    /\ UNCHANGED <<buf, blocks>>

\* One $reader.read(&mut buf) and the match arm it selects.  In non-blocking
\* mode the read never waits: an empty, still open stream reports WouldBlock.
TaskRead(s) ==
    /\ task[s].pc = "read"
    /\ \/ /\ buf[s] # << >>
          /\ \E n \in 1..Min(Len(buf[s]), ScratchSize) : ReadData(s, n)
       \/ /\ buf[s] = << >>
          /\ procState = "exited"
          /\ ReadEof(s)
       \/ /\ buf[s] = << >>
          /\ procState # "exited"
          /\ nonblocking[s]
          /\ ReadWouldBlock(s)
       \/ \E x \in FatalKinds : ReadError(s, x)
    /\ UNCHANGED <<mainPc, authVars, budget, wrote, pending, procState, exitOk,
                   nonblocking, pauses, coordVars>>

\* The sleep elapses and the loop reads again.
TaskWake(s) ==
    /\ task[s].pc = "sleep"
    /\ task' = [task EXCEPT ![s].pc = "read"]
    /\ pauses' = [pauses EXCEPT ![s] = Min(@ + 1, MaxPauses)]
    /\ UNCHANGED <<mainPc, authVars, procVars, nonblocking, readLog, blocks, coordVars>>

TaskStep(s) == TaskRead(s) \/ TaskWake(s)

TaskNext == \E s \in Streams : TaskStep(s)

\* -------------------------------------------------------------- execute_cmd
ExecReturn(r) ==
    /\ execResult' = r
    /\ execPc' = "done"
    /\ mainPc' = IF r.tag = "Ok" THEN "print" ELSE "failed"

\* session.exec(cmd, None).compat().await?
ExecStart ==
    /\ mainPc = "execute"
    /\ execPc = "idle"
    /\ \E ok \in BOOLEAN :
        IF ok
        THEN /\ procState' = "running"
             /\ pending' \in Intents(0)
             /\ execPc' = "spawn_stdout"
             /\ UNCHANGED <<mainPc, execResult>>
        ELSE /\ ExecReturn(ExecErr("exec", "Other"))
             /\ UNCHANGED <<procState, pending>>
    /\ UNCHANGED <<authVars, budget, wrote, exitOk, buf, taskVars, gotOut, gotErr>>

AfterSpawn(s) == IF s = "stdout" THEN "spawn_stderr" ELSE "join_stdout"

\* spawn_reader!($reader): set_non_blocking(true)? and then tokio::spawn.
SpawnReader_Sequential(s) ==
    /\ mainPc = "execute"
    /\ execPc = "spawn_" \o s
    /\ s = "stderr" => task["stdout"].pc = "done"
    /\ \E ok \in BOOLEAN :
        IF ok
        THEN /\ nonblocking' = [nonblocking EXCEPT ![s] = TRUE]
             /\ task' = [task EXCEPT ![s].pc = "read"]
             /\ execPc' = AfterSpawn(s)
             /\ UNCHANGED <<mainPc, execResult>>
        ELSE /\ ExecReturn(ExecErr("set_non_blocking", "Other"))
             /\ UNCHANGED <<nonblocking, task>>
    /\ UNCHANGED <<authVars, procVars, readLog, blocks, pauses, gotOut, gotErr>>

SpawnReader_AfterExit(s) ==
    /\ mainPc = "execute"
    /\ execPc = "spawn_" \o s
    /\ procState = "exited"
    /\ \E ok \in BOOLEAN :
        IF ok
        THEN /\ nonblocking' = [nonblocking EXCEPT ![s] = TRUE]
             /\ task' = [task EXCEPT ![s].pc = "read"]
             /\ execPc' = AfterSpawn(s)
             /\ UNCHANGED <<mainPc, execResult>>
        ELSE /\ ExecReturn(ExecErr("set_non_blocking", "Other"))
             /\ UNCHANGED <<nonblocking, task>>
    /\ UNCHANGED <<authVars, procVars, readLog, blocks, pauses, gotOut, gotErr>>

SpawnReader_SpawnAnyway(s) ==
    /\ mainPc = "execute"
    /\ execPc = "spawn_" \o s
    /\ \E ok \in BOOLEAN :
        /\ nonblocking' = [nonblocking EXCEPT ![s] = ok]
        /\ task' = [task EXCEPT ![s].pc = "read"]
        /\ execPc' = AfterSpawn(s)
        /\ UNCHANGED <<mainPc, execResult>>
    /\ UNCHANGED <<authVars, procVars, readLog, blocks, pauses, gotOut, gotErr>>

SpawnReader(s) ==
    /\ mainPc = "execute"
    /\ execPc = "spawn_" \o s
    /\ \E ok \in BOOLEAN :
        IF ok
        THEN /\ nonblocking' = [nonblocking EXCEPT ![s] = TRUE]
             /\ task' = [task EXCEPT ![s].pc = "read"]
             /\ execPc' = AfterSpawn(s)
             /\ UNCHANGED <<mainPc, execResult>>
        ELSE /\ ExecReturn(ExecErr("set_non_blocking", "Other"))
             /\ UNCHANGED <<nonblocking, task>>
    /\ UNCHANGED <<authVars, procVars, readLog, blocks, pauses, gotOut, gotErr>>

\* let stdout = stdout_handle.await??;
JoinStdout ==
    /\ mainPc = "execute"
    /\ execPc = "join_stdout"
    /\ task["stdout"].pc = "done"
    /\ IF task["stdout"].result.tag = "Ok"
       THEN /\ gotOut' = task["stdout"].result.bytes
            /\ execPc' = "join_stderr"
            /\ UNCHANGED <<mainPc, execResult>>
       ELSE /\ ExecReturn(ExecErr("stdout", task["stdout"].result.err))
            /\ UNCHANGED gotOut
    /\ UNCHANGED <<authVars, procVars, taskVars, gotErr>>

\* let stderr = stderr_handle.await??;
JoinStderr_IgnoreError ==
    /\ mainPc = "execute"
    /\ execPc = "join_stderr"
    /\ task["stderr"].pc = "done"
    /\ gotErr' = task["stderr"].result.bytes
    /\ execPc' = "wait"
    /\ UNCHANGED <<mainPc, execResult>>
    /\ UNCHANGED <<authVars, procVars, taskVars, gotOut>>

JoinStderr_Early ==
    /\ mainPc = "execute"
    /\ execPc = "join_stderr"
    /\ IF task["stderr"].result.tag # "Err"
       THEN /\ gotErr' = task["stderr"].result.bytes
            /\ execPc' = "wait"
            /\ UNCHANGED <<mainPc, execResult>>
       ELSE /\ ExecReturn(ExecErr("stderr", task["stderr"].result.err))
            /\ UNCHANGED gotErr
    /\ UNCHANGED <<authVars, procVars, taskVars, gotOut>>

JoinStderr ==
    /\ mainPc = "execute"
    /\ execPc = "join_stderr"
    /\ task["stderr"].pc = "done"
    /\ IF task["stderr"].result.tag = "Ok"
       THEN /\ gotErr' = task["stderr"].result.bytes
            /\ execPc' = "wait"
            /\ UNCHANGED <<mainPc, execResult>>
       ELSE /\ ExecReturn(ExecErr("stderr", task["stderr"].result.err))
            /\ UNCHANGED gotErr
    /\ UNCHANGED <<authVars, procVars, taskVars, gotOut>>

\* let status = child.async_wait().compat().await?; Ok(Output { .. })
Wait_AlwaysSuccess ==
    /\ mainPc = "execute"
    /\ execPc = "wait"
    /\ \/ /\ procState = "exited"
          /\ exitOk' \in BOOLEAN
          /\ ExecReturn(OkOutput(TRUE, gotOut, gotErr))
       \/ /\ ExecReturn(ExecErr("wait", "Other"))
          /\ UNCHANGED exitOk
    /\ UNCHANGED <<authVars, budget, wrote, pending, procState, buf, taskVars,
                   gotOut, gotErr>>

\* The wait yields the exited process' status, or fails.
Wait ==
    /\ mainPc = "execute"
    /\ execPc = "wait"
    /\ \/ /\ procState = "exited"
          /\ exitOk' \in BOOLEAN
          /\ ExecReturn(OkOutput(exitOk', gotOut, gotErr))
       \/ /\ ExecReturn(ExecErr("wait", "Other"))
          /\ UNCHANGED exitOk
    /\ UNCHANGED <<authVars, budget, wrote, pending, procState, buf, taskVars,
                   gotOut, gotErr>>

CoordStep ==
    ExecStart \/ SpawnReader("stdout") \/ SpawnReader("stderr")
        \/ JoinStdout \/ JoinStderr \/ Wait

\* println! of the output; main returns Ok(()).
MainPrint ==
    /\ mainPc = "print"
    /\ mainPc' = "done"
    /\ UNCHANGED <<authVars, procVars, taskVars, coordVars>>

Next == AuthNext \/ ProcNext \/ TaskNext \/ CoordStep \/ MainPrint

Spec == Init /\ [][Next]_vars

\* The executor polls every spawned task and the awaiting caller, and the
\* remote process runs on its own host.
LiveSpec ==
    /\ Spec
    /\ WF_vars(ProcNext)
    /\ WF_vars(CoordStep)
    /\ \A s \in Streams : WF_vars(TaskStep(s))

\* ===================================================== authentication claims
IsTerminal(e) == e.type \in {"Error", "Authenticated"}

\* Index of the first terminal event of the sequence, 0 when there is none.
FirstTerminal ==
    IF \E i \in 1..Len(events) : IsTerminal(events[i])
    THEN CHOOSE i \in 1..Len(events) :
            /\ IsTerminal(events[i])
            /\ \A j \in 1..(i - 1) : ~IsTerminal(events[j])
    ELSE 0

\* Indices of the challenge events among the first n events, in arrival order.
Challenges(n) == SelectSeq([i \in 1..n |-> i], LAMBDA i : IsChallenge(events[i]))

\* Indices of the events the answers were sent for, in sending order.
AnswerIdx == [j \in 1..Len(answers) |-> answers[j].a.idx]

AllAnswersOk == \A j \in 1..Len(answers) : answers[j].ok

\* C1: at every moment the answers sent so far are, one each and in arrival
\* order, exactly the challenges received so far (the one being answered
\* excepted); and when the first terminal event is Authenticated and every
\* answer was transmitted, authenticate has returned Ok(()) having consumed
\* the events up to that one and answered every challenge before it.
C1_AnsweredOnceInOrder ==
    /\ AnswerIdx = Challenges(IF authPc = "answer" THEN consumed - 1 ELSE consumed)
    /\ (/\ authPc = "returned"
        /\ FirstTerminal # 0
        /\ events[FirstTerminal].type = "Authenticated"
        /\ AllAnswersOk)
       => /\ authResult = OkUnit
          /\ consumed = FirstTerminal
          /\ AnswerIdx = Challenges(FirstTerminal)

C1_Witness ==
    /\ authPc = "returned"
    /\ authResult = OkUnit
    /\ consumed = 3
    /\ events[1].type = "HostVerify"
    /\ events[2].type = "Authenticate"
    /\ events[3].type = "Authenticated"
    /\ AnswerIdx = <<1, 2>>

\* C2 (as stated): whenever Error(msg) is the first terminal event of the
\* sequence, authenticate returns PermissionDenied carrying msg and has
\* consumed nothing beyond the Error.
C2_Original ==
    (/\ authPc = "returned"
     /\ FirstTerminal # 0
     /\ events[FirstTerminal].type = "Error")
    => /\ authResult = IoError("PermissionDenied", events[FirstTerminal].text)
       /\ consumed = FirstTerminal

\* C2 (amended): when Error(msg) is the first terminal event and every answer
\* sent before it was transmitted, authenticate returns PermissionDenied
\* carrying msg, has consumed no event after the Error and has answered only
\* the challenges that arrived before it.
C2_ErrorRejects ==
    (/\ authPc = "returned"
     /\ FirstTerminal # 0
     /\ events[FirstTerminal].type = "Error"
     /\ AllAnswersOk)
    => /\ authResult = IoError("PermissionDenied", events[FirstTerminal].text)
       /\ consumed = FirstTerminal
       /\ AnswerIdx = Challenges(FirstTerminal)
       /\ mainPc = "failed"

C2_Witness ==
    /\ authPc = "returned"
    /\ Len(events) = 3
    /\ events[1].type = "HostVerify"
    /\ events[2] = Event("Error", "m2", << >>)
    /\ events[3].type = "Authenticate"
    /\ authResult = IoError("PermissionDenied", "m2")
    /\ consumed = 2

\* C3: every answer sent for a HostVerify is the boolean true and every
\* answer sent for an Authenticate is the list ANSWERS, whatever the
\* challenge carries and whatever came before it.
C3_FixedAnswers ==
    \A j \in 1..Len(answers) :
        LET a == answers[j].a
            e == events[a.idx]
        IN  /\ IsChallenge(e)
            /\ e.type = "HostVerify" => (a.kind = "bool" /\ a.trust = TRUE)
            /\ e.type = "Authenticate" => (a.kind = "list" /\ a.creds = ANSWERS)

C3_Witness ==
    /\ Len(answers) = 2
    /\ events[answers[1].a.idx] = Event("HostVerify", "h2", << >>)
    /\ events[answers[2].a.idx] = Event("Authenticate", "", <<"p1">>)
    /\ answers[1].a.trust = TRUE
    /\ answers[2].a.creds = ANSWERS

NoTerminal == FirstTerminal = 0

\* C4 (as stated): when the source has delivered all its events and closed,
\* none of them Error or Authenticated, authenticate returns Ok(()).
C4_Original ==
    (/\ authPc = "returned"
     /\ srcClosed
     /\ consumed = Len(events)
     /\ NoTerminal)
    => authResult = OkUnit

\* C4 (amended): when the source has closed without ever delivering Error or
\* Authenticated and every answer was transmitted, authenticate returns
\* Ok(()) after consuming every event and answering every challenge.
C4_ExhaustedIsSuccess ==
    (/\ authPc = "returned"
     /\ srcClosed
     /\ NoTerminal
     /\ AllAnswersOk)
    => /\ authResult = OkUnit
       /\ consumed = Len(events)
       /\ AnswerIdx = Challenges(Len(events))

C4_Witness ==
    /\ authPc = "returned"
    /\ srcClosed
    /\ NoTerminal
    /\ Len(events) = 3
    /\ Len(answers) = 2
    /\ AllAnswersOk
    /\ authResult = OkUnit

\* C5: once an answer fails, it is the last answer sent, no event after its
\* challenge is consumed, and authenticate has returned an error of kind
\* Other (never Ok), which main propagates.
C5_AnswerFailureStops ==
    \A j \in 1..Len(answers) :
        ~answers[j].ok =>
            /\ j = Len(answers)
            /\ consumed = answers[j].a.idx
            /\ authPc = "returned"
            /\ authResult = IoError("Other", "answer")
            /\ mainPc = "failed"

C5_Witness ==
    /\ Len(events) = 2
    /\ events[1].type = "Authenticate"
    /\ events[2].type = "Authenticated"
    /\ Len(answers) = 1
    /\ ~answers[1].ok
    /\ authPc = "returned"
    /\ consumed = 1

\* ========================================================= execution claims
\* Concatenation of the data chunks of a read log, in read order.
RECURSIVE Concat(_)
Concat(log) ==
    IF log = << >> THEN << >>
    ELSE (IF Head(log).kind = "data" THEN Head(log).data ELSE << >>) \o Concat(Tail(log))

\* C6: when execute_cmd returns Ok(Output), the process has exited, both
\* readers ended at end-of-stream, stdout and stderr are exactly the bytes
\* the process wrote to each stream, in order, and success is the exit
\* status' success(); an Err naming a stream is returned only when that
\* stream's reader ended with a fatal error.
C6_ExactOutput ==
    /\ execResult.tag = "Ok" =>
        /\ execPc = "done"
        /\ procState = "exited"
        /\ pending = "exit"
        /\ \A s \in Streams : task[s].result.tag = "Ok"
        /\ execResult.stdout = WrittenTo("stdout")
        /\ execResult.stderr = WrittenTo("stderr")
        /\ execResult.success = exitOk
    /\ (execResult.tag = "Err" /\ execResult.origin \in Streams) =>
        task[execResult.origin].result.tag = "Err"

C6_Witness ==
    /\ execResult = OkOutput(TRUE, <<1, 2>>, << >>)
    /\ exitOk
    /\ mainPc = "done"

FatalError == \E s \in Streams : task[s].result.tag = "Err"

\* C7: a reader that has been spawned and has not finished can always take
\* its next step, whatever the other reader and the process are doing; and
\* under fair scheduling every started command whose reads report no fatal
\* error returns, with all bytes written to each stream captured when it
\* returns Ok.
C7_NoDeadlock ==
    /\ [](\A s \in Streams : task[s].pc \in {"read", "sleep"} => ENABLED TaskStep(s))
    /\ (procState = "running") ~> (execPc = "done" \/ FatalError)
    /\ [](execResult.tag = "Ok" =>
            /\ pending = "exit"
            /\ execResult.stdout = WrittenTo("stdout")
            /\ execResult.stderr = WrittenTo("stderr"))

C7_Witness ==
    /\ execResult.tag = "Ok"
    /\ Len(execResult.stdout) > BufCap
    /\ Len(execResult.stderr) > BufCap
    /\ wrote[1] # wrote[2]

\* C8: whenever execute_cmd awaits a reader or the child, both readers have
\* been spawned; and spawning never waits for the process: at either spawn
\* point the spawn step can be taken while the process is still running.
C8_SpawnBeforeWait ==
    /\ execPc \in {"join_stdout", "join_stderr", "wait"} =>
        \A s \in Streams : task[s].pc # "unspawned"
    /\ \A s \in Streams :
        (mainPc = "execute" /\ execPc = "spawn_" \o s) => ENABLED SpawnReader(s)
    /\ (execResult.tag = "Ok") => \A s \in Streams : task[s].pc = "done"

C8_Witness ==
    /\ procState = "running"
    /\ pending # "exit"
    /\ execPc = "join_stdout"
    /\ task["stdout"].bytes # << >>
    /\ task["stderr"].bytes # << >>

C10_ErrorOrComplete ==
    \A s \in Streams :
        LET log == readLog[s]
            r == task[s].result
        IN  /\ \A i \in 1..(Len(log) - 1) : log[i].kind = "data"
            /\ (log # << >> /\ log[Len(log)].kind \in FatalKinds) =>
                /\ task[s].pc = "done"
                /\ r = Outcome("Err", << >>, log[Len(log)].kind)
            /\ r.tag = "Err" =>
                /\ log # << >>
                /\ log[Len(log)].kind = r.err
                /\ r.err \in FatalKinds
            /\ r.tag = "Ok" =>
                /\ log[Len(log)].kind = "eof"
                /\ procState = "exited"
                /\ pending = "exit"
                /\ r.bytes = WrittenTo(s)

C10_Witness ==
    \E s \in Streams :
        /\ task[s].result = Outcome("Err", << >>, "ConnectionReset")
        /\ task[s].bytes # << >>
        /\ pending # "exit"

BothSpawned == \A s \in Streams : task[s].pc # "unspawned"

C12_JoinedBeforeReturn ==
    execPc = "done" => \A s \in Streams : task[s].pc \in {"unspawned", "done"}

\* C13: while authenticate has not returned, execute_cmd has not been
\* called and no process has been started; and execute_cmd is only ever
\* entered after authenticate returned Ok(()).
C13_AuthBeforeExec ==
    /\ authPc # "returned" =>
        /\ mainPc = "authenticate"
        /\ execPc = "idle"
        /\ procState = "notstarted"
    /\ (execPc # "idle" \/ procState # "notstarted" \/ mainPc \in {"execute", "print", "done"}) =>
        /\ authPc = "returned"
        /\ authResult = OkUnit

C13_Witness ==
    /\ procState = "running"
    /\ Len(answers) = 1
    /\ answers[1].ok
    /\ authResult = OkUnit

\* C15 (as stated, as a design with a three-way join): from the moment both
\* readers are spawned until execute_cmd returns, the wait on the child is
\* in progress, also while a reader has not finished.
C15_Original ==
    (BothSpawned /\ execPc # "done" /\ \E s \in Streams : task[s].pc # "done")
        => execPc = "wait"

\* C15 (amended): the wait on the child is in progress, or has failed, only
\* when both readers have finished with Ok; the readers run concurrently
\* with each other and with the process, not with the wait.
C15_WaitAfterDrains ==
    (execPc = "wait" \/ execResult.origin = "wait" \/ execResult.tag = "Ok") =>
        \A s \in Streams : task[s].pc = "done" /\ task[s].result.tag = "Ok"

C15_Witness ==
    /\ procState = "running"
    /\ execPc = "join_stdout"
    /\ task["stdout"].pc = "read"
    /\ task["stderr"].pc = "sleep"
    /\ task["stdout"].bytes # << >>
    /\ buf["stdout"] # << >>

\* C20: a reader exists only for a stream that was switched to non-blocking
\* mode, so every read is made in that mode; and when execute_cmd returned
\* the error of set_non_blocking, the stream that failed has no reader and
\* the stderr reader, which the wait on the child comes after, never ran.
C20_NonBlockingFirst ==
    /\ \A s \in Streams :
        (task[s].pc # "unspawned" \/ readLog[s] # << >> \/ blocks[s] > 0)
            => nonblocking[s]
    /\ execResult.origin = "set_non_blocking" =>
        /\ execResult.tag = "Err"
        /\ \E s \in Streams : ~nonblocking[s] /\ task[s] = NewTask
        /\ task["stderr"] = NewTask
        /\ ~nonblocking["stderr"]
        /\ gotOut = << >>
        /\ gotErr = << >>

C20_Witness ==
    /\ execResult.origin = "set_non_blocking"
    /\ nonblocking["stdout"]
    /\ task["stdout"].bytes # << >>
    /\ task["stdout"].pc = "sleep"

Other(s) == CHOOSE t \in Streams : t # s

\* What one reader owns: its task, its read log, its counters, its stream.
ReaderState(s) == <<task[s], readLog[s], blocks[s], pauses[s], nonblocking[s]>>

\* C19: the bytes a reader has accumulated were all written by the process
\* to that reader's own stream, in the order written; a step that changes
\* one reader's state or takes bytes from its stream leaves the other
\* reader's state and the other stream untouched; and an Ok outcome is the
\* whole content of the reader's own stream, whatever the interleaving.
C19_StreamsSeparate ==
    /\ [](\A s \in Streams :
            /\ \A i \in 1..Len(task[s].bytes) : wrote[task[s].bytes[i]] = s
            /\ \A i \in 1..Len(task[s].bytes) : task[s].bytes[i] = WrittenTo(s)[i]
            /\ task[s].result.tag = "Ok" =>
                task[s].result.bytes = WrittenTo(s))
    /\ [][\A s \in Streams :
            (ReaderState(s)' # ReaderState(s) \/ Len(buf[s]') < Len(buf[s])) =>
                /\ ReaderState(Other(s))' = ReaderState(Other(s))
                /\ buf[Other(s)]' = buf[Other(s)]]_vars

C19_Witness ==
    /\ task["stdout"].result = Outcome("Ok", <<1, 3>>, "")
    /\ task["stderr"].result = Outcome("Ok", <<2>>, "")
    /\ wrote = <<"stdout", "stderr", "stdout">>

\* C16: a reader that is spawned and never finishes, because its stream
\* stays open and every read of it reports WouldBlock from some point on,
\* keeps execute_cmd from ever returning.
C16_Original ==
    \A s \in Streams :
        <>[](task[s].pc \in {"read", "sleep"}) => [](execPc # "done")

\* The state of the handshake, read off authenticate's position and return
\* value with the error taxonomy of the specification.
AuthState ==
    IF authPc # "returned" THEN "Listening"
    ELSE IF authResult = OkUnit THEN "Authenticated"
    ELSE IF authResult.kind = "PermissionDenied" THEN "Rejected"
    ELSE "TransportFailure"

\* Terminal states are absorbing and only the three non-terminal event
\* kinds keep the handshake in Listening.
C17_Absorbing ==
    /\ AuthState # "Listening" => ~ENABLED AuthNext
    /\ \A i \in 1..(consumed - 1) :
        events[i].type \in {"HostVerify", "Authenticate", "Banner"}
    /\ (AuthState = "Listening" /\ consumed > 0) =>
        events[consumed].type \in {"HostVerify", "Authenticate", "Banner"}
    /\ (consumed > 0 /\ events[consumed].type = "Authenticated") =>
        /\ AuthState = "Authenticated"
        /\ \A k \in 1..Len(answers) : answers[k].a.idx < consumed
    /\ (consumed > 0 /\ events[consumed].type = "Error") =>
        AuthState = "Rejected"
    /\ AuthState = "Rejected" =>
        consumed > 0 /\ events[consumed].type = "Error"
    /\ AuthState = "Authenticated" =>
        \/ consumed > 0 /\ events[consumed].type = "Authenticated"
        \/ consumed = Len(events) /\ srcClosed /\ NoTerminal

\* C17 (as stated): the handshake is always in one of Listening,
\* Authenticated and Rejected; the terminal states are absorbing, and after
\* Authenticated was consumed no later event is consumed or answered.
C17_Original ==
    /\ AuthState \in {"Listening", "Authenticated", "Rejected"}
    /\ C17_Absorbing

\* C17 (amended): the handshake is always in one of Listening,
\* Authenticated, Rejected and TransportFailure, the last entered exactly
\* when the answer to the challenge just consumed failed; the terminal
\* states are absorbing, and after Authenticated was consumed no later
\* event is consumed or answered.
C17_FourStates ==
    /\ AuthState \in {"Listening", "Authenticated", "Rejected", "TransportFailure"}
    /\ AuthState = "TransportFailure" <=>
        /\ authPc = "returned"
        /\ answers # << >>
        /\ ~answers[Len(answers)].ok
        /\ answers[Len(answers)].a.idx = consumed
        /\ IsChallenge(events[consumed])
    /\ C17_Absorbing

C17_Witness ==
    /\ AuthState = "Authenticated"
    /\ Len(events) = 3
    /\ consumed = 2
    /\ events[1].type = "Banner"
    /\ events[2].type = "Authenticated"
    /\ events[3].type = "HostVerify"
    /\ answers = << >>

WithoutBanners(evs) == SelectSeq(evs, LAMBDA e : e.type # "Banner")

\* The outcomes of the answers of this handshake, continued with successes.
AnswerOutcomes ==
    [k \in 1..MaxEvents |-> IF k <= Len(answers) THEN answers[k].ok ELSE TRUE]

\* The answers sent, without the position of the event each one answers.
AnswersSent ==
    [k \in 1..Len(answers) |->
        [a |-> [answers[k].a EXCEPT !.idx = 0], ok |-> answers[k].ok]]

\* C18: the step that receives a Banner sends no answer, returns nothing
\* and leaves the handshake listening, adding at most the banner's text to
\* what is printed; and what authenticate returns and answers on the events
\* of a handshake is what it returns and answers on the same events with
\* every Banner removed, under every outcome of the answers.
C18_BannerIsInert ==
    /\ [][(consumed' = consumed + 1 /\ events[consumed'].type = "Banner") =>
            /\ answers' = answers
            /\ authPc = "recv" /\ authPc' = "recv"
            /\ authResult' = authResult
            /\ mainPc' = mainPc
            /\ banners' = IF events[consumed'].text = NoBanner
                          THEN banners
                          ELSE Append(banners, events[consumed'].text)]_vars
    /\ [](authPc = "returned" =>
            [result |-> authResult, answers |-> AnswersSent]
                = authenticate(events, AnswerOutcomes, srcClosed, << >>))
    /\ [](\A oks \in [1..MaxEvents -> BOOLEAN] :
            authenticate(events, oks, srcClosed, << >>)
                = authenticate(WithoutBanners(events), oks, srcClosed, << >>))

C18_Witness ==
    /\ authPc = "returned"
    /\ Len(events) = 3
    /\ events[1] = Event("Banner", "b1", << >>)
    /\ events[2] = Event("Banner", NoBanner, << >>)
    /\ events[3].type = "Error"
    /\ banners = <<"b1">>
    /\ authResult = IoError("PermissionDenied", events[3].text)

\* The answers of the two calls had the same outcomes, as far as both went.
SameOutcomes ==
    \A k \in 1..Min(Len(answers), Len(firstCall.answers)) :
        answers[k].ok = firstCall.answers[k].ok

\* C14: when authenticate has returned from a second call on the same
\* events, with the same outcomes of the answers, it returned what the
\* first call returned, after the same answers, the same number of events
\* received and the same banners printed.
C14_SameTwice ==
    (firstCall.called /\ authPc = "returned" /\ SameOutcomes) =>
        /\ authResult = firstCall.result
        /\ answers = firstCall.answers
        /\ consumed = firstCall.consumed
        /\ banners = firstCall.banners

C14_Witness ==
    /\ firstCall.called
    /\ authPc = "returned"
    /\ SameOutcomes
    /\ Len(answers) = 2
    /\ answers[1].a.kind = "bool"
    /\ answers[2].a.kind = "list"
    /\ ~answers[2].ok
    /\ banners # << >>
====
